---- MODULE Spec2Model ----
(***************************************************************************)
(* Pump Ball client (React component App): the access gate (wallet,        *)
(* holdings check, demo quota), the pointer gestures, the stroke           *)
(* synchronisation with the server and the persistent raster buffer.       *)
(*                                                                         *)
(* The component keeps two kinds of state:                                 *)
(*   - React state (useState): walletAddr, hasFullAccess, demoUsed,        *)
(*     checkingHoldings, connected.  A handler created inside the setup    *)
(*     effect reads the values of the render in which the effect last      *)
(*     ran, not the current ones: those captured values are capFull,       *)
(*     capDemo, capConnected.                                              *)
(*   - refs (useRef): drawingRef, panningRef, lastPos, lastEmit,           *)
(*     strokesRef, bufferCtxRef.  They are shared by every render.         *)
(*                                                                         *)
(* The raster buffer is modelled by the ordered sequence of strokes that   *)
(* were drawn on it since it was created with the white disc only.         *)
(*                                                                         *)
(* The view (scaleRef, offsetRef) is modelled on the x axis, with exact    *)
(* rational arithmetic.                                                    *)
(*                                                                         *)
(* The component exists in two revisions that differ in the setup effect:  *)
(* src/unnamed/part_002 (dependencies [connected], fit-to-ball at every    *)
(* run, wallet disconnect) and src/src/App.jsx (dependencies [connected,   *)
(* color, size], no view reset).  The handlers are those of part_002;      *)
(* RunEffectApp and InitApp are the effect and the start of App.jsx.       *)
(*                                                                         *)
(* An earlier revision, src/unnamed/part_001, has no buffer and no access  *)
(* gate: its paint frame redraws History when needsRender is set and draws *)
(* the strokes of incomingQueue otherwise.  Its definitions end in 001;    *)
(* resize, onWheel, onPointerUp and the socket status handlers are the     *)
(* same code in the three revisions.                                       *)
(*                                                                         *)
(* The visible canvas is modelled by what the last paint frame left on it: *)
(* the path the frame took, the view it drew with, the strokes drawn since *)
(* the surface was last cleared and the boundary rings the frame stroked.  *)
(***************************************************************************)
EXTENDS Integers, Sequences, FiniteSets, TLC

VARIABLES
    walletAddr,         \* useState(null): connected wallet address or NoWallet
    hasFullAccess,      \* useState(false)
    demoUsed,           \* useState(0)
    checkingHoldings,   \* useState(false)
    connected,          \* useState(false)
    capFull,            \* hasFullAccess as captured by the installed handlers
    capDemo,            \* demoUsed as captured by the installed handlers
    capConnected,       \* connected as captured by the installed handlers
    drawingRef,         \* useRef(false)
    panningRef,         \* useRef(false)
    lastPos,            \* useRef: anchor of the next stroke (grid of world positions)
    sinceEmit,          \* performance.now() - lastEmit.current, capped at EMIT_GAP_MS
    strokesRef,         \* useRef([]): History
    buffer,             \* strokes drawn on the buffer canvas since its creation
    emitted,            \* number of socket.emit("draw", ...) calls
    pendingConnects,    \* connectWallet calls awaiting provider.connect()
    pendingChecks,      \* checkHoldings calls awaiting rpc(), per address
    pendingDisconnects, \* disconnectWallet calls awaiting provider.disconnect()
    color,              \* useState("#111111"): active stroke colour
    size,               \* useState(3): active stroke width
    capTool,            \* <<color, size>> at the last run of the setup effect
    canvasSize,         \* canvas.clientWidth / clientHeight (CSS pixels)
    scale,              \* scaleRef.current, a rational <<numerator, denominator>>
    offset,             \* offsetRef.current.x, a rational (world units)
    panStart,           \* useRef: clientX of the pointer-down that started the pan
    offsetStart,        \* useRef: offsetRef.current.x at that pointer-down
    scaleAtPanStart,    \* history variable: scaleRef.current at that pointer-down
    needsRender,        \* useRef(true)
    incomingQueue,      \* useRef([])
    display             \* content of the visible canvas

gateVars == <<walletAddr, hasFullAccess, demoUsed, checkingHoldings>>
capVars == <<capFull, capDemo, capConnected>>
gestureVars == <<drawingRef, panningRef, lastPos, sinceEmit>>
syncVars == <<strokesRef, buffer, emitted>>
asyncVars == <<pendingConnects, pendingChecks, pendingDisconnects>>
toolVars == <<color, size, capTool>>
viewVars == <<canvasSize, scale, offset>>
panVars == <<panStart, offsetStart, scaleAtPanStart>>
paintVars == <<needsRender, incomingQueue, display>>
vars == <<gateVars, capVars, gestureVars, syncVars, asyncVars, connected,
          toolVars, viewVars, panVars, paintVars>>

(***************************************************************************)
(* Program constants                                                       *)
(***************************************************************************)
DEMO_LIMIT == 10
MIN_DIST == 1
EMIT_GAP_MS == 12

(***************************************************************************)
(* Bounds of the model                                                     *)
(***************************************************************************)
MaxPos == 1
MaxHist == 2
MaxInFlight == 2
MaxGateHist == 1
MaxGateInFlight == 1
MaxDemoHist == 11
MaxGestures == 1
PosPerUnit == 2
MaxSamplePos == 4
MaxLocalHist == 2
MaxLocalGestures == 2
MaxOffset == 250
MaxOffsetDen == 1
MaxPaintHist == 1
MaxPaintOffset == 40

NoWallet == "none"
Addrs == {"A", "B"}
\* World coordinates of pointer events and strokes lie on a grid of
\* PosPerUnit points per world unit (x axis).
Pos == 0..MaxPos
SamplePos == 0..MaxSamplePos
TickMs == {5, 20}
Stroke == [x0 : Pos, x1 : Pos]
Colors == {"#111111", "#e11d48"}
Sizes == {3, 8}
Canvases == {[w |-> 1920, h |-> 1080], [w |-> 1920, h |-> 720]}

Min(a, b) == IF a < b THEN a ELSE b
Abs(a) == IF a < 0 THEN -a ELSE a

dist(a, b) == Abs(a - b)

NoStrokes == << >>

(***************************************************************************)
(* Numbers of the view.  scale and offset are JavaScript numbers; the      *)
(* model computes them exactly, as rationals <<n, d>> in lowest terms with *)
(* d > 0.                                                                  *)
(***************************************************************************)
RECURSIVE GCD(_, _)
GCD(a, b) == IF b = 0 THEN a ELSE GCD(b, a % b)

\* the rational n/d (d # 0) in lowest terms
Rat(n, d) ==
    LET g == GCD(Abs(n), Abs(d))
        sgn == IF d < 0 THEN -1 ELSE 1
    IN  <<sgn * (n \div g), sgn * (d \div g)>>

RatInt(n) == <<n, 1>>
RatAdd(a, b) == Rat(a[1] * b[2] + b[1] * a[2], a[2] * b[2])
RatSub(a, b) == Rat(a[1] * b[2] - b[1] * a[2], a[2] * b[2])
RatMul(a, b) == Rat(a[1] * b[1], a[2] * b[2])
RatDiv(a, b) == Rat(a[1] * b[2], a[2] * b[1])
RatLess(a, b) == a[1] * b[2] < b[1] * a[2]
RatMin(a, b) == IF RatLess(b, a) THEN b ELSE a
RatMax(a, b) == IF RatLess(a, b) THEN b ELSE a
RatAbs(a) == <<Abs(a[1]), a[2]>>

Zero == RatInt(0)

\* Math.min(5, Math.max(0.2, ...)) and zoomIntensity = 0.0015 of onWheel
SCALE_MIN == Rat(1, 5)
SCALE_MAX == RatInt(5)
zoomIntensity == Rat(3, 2000)

\* resetViewToBall: margin in CSS pixels, radius of the ball in world units
BALL_RADIUS == 2000
margin == 40

\* the window the page is loaded in, and the tool state of the first render
DefaultCanvas == [w |-> 1920, h |-> 1080]
DefaultColor == "#111111"
DefaultSize == 3

(***************************************************************************)
(* View transform (x axis; the y axis is computed the same way).  The      *)
(* canvas fills the window, so rect.left = 0 and cssX = clientX.           *)
(***************************************************************************)
\* worldX of toWorld for view scale s and offset ox
worldX(clientX, s, ox) ==
    RatSub(RatDiv(RatSub(RatInt(clientX), Rat(canvasSize.w, 2)), s), ox)

toWorld(clientX) == worldX(clientX, scale, offset)

\* the grid position of toWorld(clientX)
worldPos(clientX) ==
    LET w == toWorld(clientX) IN (w[1] * PosPerUnit) \div w[2]

\* the scale resetViewToBall gives to a canvas
resetViewToBall(canvas) ==
    LET ballDiameter == BALL_RADIUS * 2
        scaleX == Rat(canvas.w - margin * 2, ballDiameter)
        scaleY == Rat(canvas.h - margin * 2, ballDiameter)
    IN  RatMin(scaleX, scaleY)

(***************************************************************************)
(* The visible canvas.                                                     *)
(***************************************************************************)
\* the entry the part_002 handlers push on incomingQueue
Null == [null |-> TRUE]

\* the canvas after "canvas.width = ..." (resize): the bitmap is cleared
Blank == [path |-> "none", view |-> << >>, strokes |-> << >>, rings |-> 0]

\* the canvas after a frame that cleared it, drew the grid, blitted the
\* strokes of content under view (canvas cv, scale s, offset ox) and
\* stroked the boundary ring once
FullRender(cv, s, ox, content) ==
    [path |-> "full", view |-> <<cv, s, ox>>, strokes |-> content, rings |-> 1]

(***************************************************************************)
(* State after the first render and the first run of the setup effect.     *)
(***************************************************************************)
InitWith(canvas, s, flag) ==
    /\ walletAddr = NoWallet
    /\ hasFullAccess = FALSE
    /\ demoUsed = 0
    /\ checkingHoldings = FALSE
    /\ connected = FALSE
    /\ capFull = FALSE
    /\ capDemo = 0
    /\ capConnected = FALSE
    /\ drawingRef = FALSE
    /\ panningRef = FALSE
    /\ lastPos = 0
    /\ sinceEmit = EMIT_GAP_MS
    /\ strokesRef = NoStrokes
    /\ buffer = NoStrokes
    /\ emitted = 0
    /\ pendingConnects = 0
    /\ pendingChecks = [a \in Addrs |-> 0]
    /\ pendingDisconnects = 0
    /\ color = DefaultColor
    /\ size = DefaultSize
    /\ capTool = <<DefaultColor, DefaultSize>>
    /\ canvasSize = canvas
    /\ scale = s
    /\ offset = Zero
    /\ panStart = 0
    /\ offsetStart = Zero
    /\ scaleAtPanStart = RatInt(1)
    /\ needsRender = flag
    /\ incomingQueue = << >>
    /\ display = FullRender(canvas, s, Zero, NoStrokes)

\* part_002: the first run of the setup effect fits the view to the ball
Init == InitWith(DefaultCanvas, resetViewToBall(DefaultCanvas), TRUE)

\* src/src/App.jsx: scaleRef starts at 1 and the effect leaves the view alone
InitApp == InitWith(DefaultCanvas, RatInt(1), TRUE)

\* src/unnamed/part_001: scaleRef starts at 1, and the first paint frame,
\* made by the setup effect, has cleared needsRender
Init001 == InitWith(DefaultCanvas, RatInt(1), FALSE)

(***************************************************************************)
(* Access gate, as the installed pointer handlers evaluate it.             *)
(***************************************************************************)
canDrawNow == IF capFull THEN TRUE ELSE capDemo < DEMO_LIMIT

countDemoUseUncapped(n) == IF ~capFull THEN n + 1 ELSE n
countDemoUseWrapping(n) == IF ~capFull THEN (n + 1) % (DEMO_LIMIT + 1) ELSE n
countDemoUse(n) == IF ~capFull THEN Min(DEMO_LIMIT, n + 1) ELSE n

(***************************************************************************)
(* Socket status handlers.  The transport reports connect only while it    *)
(* is down and disconnect only while it is up.                             *)
(***************************************************************************)
SocketConnect ==
    /\ ~connected
    /\ connected' = TRUE
    /\ UNCHANGED <<gateVars, capVars, toolVars, viewVars, panVars, paintVars, gestureVars, syncVars, asyncVars>>

SocketDisconnect ==
    /\ connected
    /\ connected' = FALSE
    /\ UNCHANGED <<gateVars, capVars, toolVars, viewVars, panVars, paintVars, gestureVars, syncVars, asyncVars>>

SocketConnectError ==
    /\ ~connected
    /\ connected' = FALSE
    /\ UNCHANGED <<gateVars, capVars, toolVars, viewVars, panVars, paintVars, gestureVars, syncVars, asyncVars>>

(***************************************************************************)
(* The setup effect runs again (cleanup, then setup) after a render in     *)
(* which a dependency differs from its value at the previous run.  It      *)
(* creates a new buffer canvas holding the white disc only, calls resize() *)
(* (which clears the visible canvas), installs handlers that close over    *)
(* the state of that render and starts the animation loop, whose first     *)
(* paintFrame() runs inside the effect.                                    *)
(***************************************************************************)
RunEffect ==
    /\ capConnected # connected
    /\ capConnected' = connected
    /\ capFull' = hasFullAccess
    /\ capDemo' = demoUsed
    /\ buffer' = NoStrokes
    /\ scale' = resetViewToBall(canvasSize)
    /\ offset' = Zero
    /\ needsRender' = TRUE
    /\ incomingQueue' = << >>
    /\ display' = FullRender(canvasSize, resetViewToBall(canvasSize), Zero, NoStrokes)
    /\ UNCHANGED <<gateVars, gestureVars, strokesRef, emitted, asyncVars, connected,
                   toolVars, canvasSize, panVars>>

\* The setup effect of src/src/App.jsx: its dependencies are
\* [connected, color, size] and it does not reset the view.
RunEffectApp ==
    /\ capConnected # connected \/ capTool # <<color, size>>
    /\ capConnected' = connected
    /\ capFull' = hasFullAccess
    /\ capDemo' = demoUsed
    /\ capTool' = <<color, size>>
    /\ buffer' = NoStrokes
    /\ needsRender' = TRUE
    /\ incomingQueue' = << >>
    /\ display' = FullRender(canvasSize, scale, offset, NoStrokes)
    /\ UNCHANGED <<gateVars, gestureVars, strokesRef, emitted, asyncVars, connected,
                   color, size, viewVars, panVars>>

\* the colour input and the size slider of the toolbar
setColor(c) ==
    /\ color' = c
    /\ UNCHANGED <<gateVars, capVars, gestureVars, syncVars, asyncVars, connected,
                   size, capTool, viewVars, panVars, paintVars>>

setSize(n) ==
    /\ size' = n
    /\ UNCHANGED <<gateVars, capVars, gestureVars, syncVars, asyncVars, connected,
                   color, capTool, viewVars, panVars, paintVars>>

(***************************************************************************)
(* Window and wheel handlers.                                              *)
(***************************************************************************)
\* resize: the canvas takes the size of the window
onResize(canvas) ==
    /\ canvasSize' = canvas
    /\ needsRender' = TRUE
    /\ display' = Blank
    /\ UNCHANGED <<gateVars, capVars, gestureVars, syncVars, asyncVars, connected,
                   toolVars, scale, offset, panVars, incomingQueue>>

\* the clamp without its lower limit
clampScaleAbove(s) == RatMin(SCALE_MAX, s)

\* Math.min(5, Math.max(0.2, s))
clampScale(s) == RatMin(SCALE_MAX, RatMax(SCALE_MIN, s))

\* the offset correction with before and after exchanged
offsetAfterZoomSwapped(ox, before, after) == RatAdd(ox, RatSub(before, after))

\* offsetRef.current.x + (after.x - before.x)
offsetAfterZoom(ox, before, after) == RatAdd(ox, RatSub(after, before))

onWheel(clientX, deltaY) ==
    LET delta == -deltaY
        s0 == scale
        s1 == clampScale(RatMul(s0, RatAdd(RatInt(1), RatMul(RatInt(delta), zoomIntensity))))
        before == worldX(clientX, s0, offset)
        after == worldX(clientX, s1, offset)
    IN  /\ scale' = s1
        /\ offset' = offsetAfterZoom(offset, before, after)
        /\ needsRender' = TRUE
        /\ UNCHANGED <<gateVars, capVars, gestureVars, syncVars, asyncVars, connected,
                       toolVars, canvasSize, panVars, incomingQueue, display>>

(***************************************************************************)
(* Pointer handlers.  pan stands for (button 1 or 2, or a modifier key);   *)
(* clientX is e.clientX and p is the world position of the event on the    *)
(* grid, toWorld(e.clientX, e.clientY).  The pan branches read clientX     *)
(* only and the drawing branches read p only.                              *)
(***************************************************************************)
\* onPointerDown with the quota test made before the test of the pan
\* buttons
onPointerDownGateFirst(pan, clientX, p) ==
    /\ IF ~canDrawNow
         THEN UNCHANGED <<drawingRef, panningRef, lastPos, demoUsed, panVars>>
         ELSE IF pan
           THEN /\ panningRef' = TRUE
                /\ panStart' = clientX
                /\ offsetStart' = offset
                /\ scaleAtPanStart' = scale
                /\ UNCHANGED <<drawingRef, lastPos, demoUsed>>
           ELSE /\ drawingRef' = TRUE
                /\ lastPos' = p
                /\ demoUsed' = countDemoUse(demoUsed)
                /\ UNCHANGED <<panningRef, panVars>>
    /\ UNCHANGED <<walletAddr, hasFullAccess, checkingHoldings, capVars, toolVars, viewVars, paintVars,
                   sinceEmit, syncVars, asyncVars, connected>>

\* onPointerDown without the return of its quota rejection
onPointerDownNoReturn(pan, clientX, p) ==
    /\ IF pan
         THEN /\ panningRef' = TRUE
              /\ panStart' = clientX
              /\ offsetStart' = offset
              /\ scaleAtPanStart' = scale
              /\ UNCHANGED <<drawingRef, lastPos, demoUsed>>
         ELSE /\ drawingRef' = TRUE
              /\ lastPos' = p
              /\ demoUsed' = countDemoUse(demoUsed)
              /\ UNCHANGED <<panningRef, panVars>>
    /\ UNCHANGED <<walletAddr, hasFullAccess, checkingHoldings, capVars, toolVars, viewVars, paintVars,
                   sinceEmit, syncVars, asyncVars, connected>>

onPointerDown(pan, clientX, p) ==
    /\ IF pan
         THEN /\ panningRef' = TRUE
              /\ panStart' = clientX
              /\ offsetStart' = offset
              /\ scaleAtPanStart' = scale
              /\ UNCHANGED <<drawingRef, lastPos, demoUsed>>
         ELSE IF ~canDrawNow
           THEN UNCHANGED <<drawingRef, panningRef, lastPos, demoUsed, panVars>>
           ELSE /\ drawingRef' = TRUE
                /\ lastPos' = p
                /\ demoUsed' = countDemoUse(demoUsed)
                /\ UNCHANGED <<panningRef, panVars>>
    /\ UNCHANGED <<walletAddr, hasFullAccess, checkingHoldings, capVars, toolVars, viewVars, paintVars,
                   sinceEmit, syncVars, asyncVars, connected>>

\* drawStrokeToBuffer(s): one more segment drawn on the buffer
drawStrokeToBuffer(buf, s) == Append(buf, s)

\* the throttle with its two tests joined the other way
ThrottledEither(p) ==
    dist(p, lastPos) < MIN_DIST * PosPerUnit \/ sinceEmit < EMIT_GAP_MS

\* the throttle without its distance test
ThrottledOff(p) == dist(p, lastPos) < 0 /\ sinceEmit < EMIT_GAP_MS

\* "if (dist(p, lastPos.current) < 1 && now - lastEmit.current < 12) return"
Throttled(p) ==
    dist(p, lastPos) < MIN_DIST * PosPerUnit /\ sinceEmit < EMIT_GAP_MS

\* offsetStart.current.x + (e.clientX - panStart.current.x) / s
panOffset(clientX, s) ==
    RatAdd(offsetStart, RatDiv(RatInt(clientX - panStart), s))

\* onPointerMove moving the anchor on a throttled sample as well
onPointerMoveAnchorAlways(clientX, p) ==
    /\ IF panningRef
         THEN /\ offset' = panOffset(clientX, scale)
              /\ needsRender' = TRUE
              /\ UNCHANGED <<lastPos, sinceEmit, syncVars, incomingQueue>>
         ELSE IF ~drawingRef \/ ~capConnected \/ ~canDrawNow
           THEN UNCHANGED <<lastPos, sinceEmit, syncVars, offset, needsRender,
                            incomingQueue>>
           ELSE IF Throttled(p)
             THEN /\ lastPos' = p
                  /\ UNCHANGED <<sinceEmit, syncVars, offset, needsRender, incomingQueue>>
             ELSE /\ LET stroke == [x0 |-> lastPos, x1 |-> p] IN
                       /\ buffer' = drawStrokeToBuffer(buffer, stroke)
                       /\ strokesRef' = Append(strokesRef, stroke)
                  /\ incomingQueue' = Append(incomingQueue, Null)
                  /\ emitted' = emitted + 1
                  /\ lastPos' = p
                  /\ sinceEmit' = 0
                  /\ UNCHANGED <<offset, needsRender>>
    /\ UNCHANGED <<gateVars, capVars, toolVars, canvasSize, scale, panVars, display,
                   drawingRef, panningRef, asyncVars, connected>>

\* onPointerMove without the test of drawingRef.current
onPointerMoveAnyMove(clientX, p) ==
    /\ IF panningRef
         THEN /\ offset' = panOffset(clientX, scale)
              /\ needsRender' = TRUE
              /\ UNCHANGED <<lastPos, sinceEmit, syncVars, incomingQueue>>
         ELSE IF ~capConnected \/ ~canDrawNow \/ Throttled(p)
           THEN UNCHANGED <<lastPos, sinceEmit, syncVars, offset, needsRender,
                            incomingQueue>>
           ELSE /\ LET stroke == [x0 |-> lastPos, x1 |-> p] IN
                     /\ buffer' = drawStrokeToBuffer(buffer, stroke)
                     /\ strokesRef' = Append(strokesRef, stroke)
                /\ incomingQueue' = Append(incomingQueue, Null)
                /\ emitted' = emitted + 1
                /\ lastPos' = p
                /\ sinceEmit' = 0
                /\ UNCHANGED <<offset, needsRender>>
    /\ UNCHANGED <<gateVars, capVars, toolVars, canvasSize, scale, panVars, display,
                   drawingRef, panningRef, asyncVars, connected>>

onPointerMove(clientX, p) ==
    /\ IF panningRef
         THEN /\ offset' = panOffset(clientX, scale)
              /\ needsRender' = TRUE
              /\ UNCHANGED <<lastPos, sinceEmit, syncVars, incomingQueue>>
         ELSE IF ~drawingRef \/ ~capConnected \/ ~canDrawNow \/ Throttled(p)
           THEN UNCHANGED <<lastPos, sinceEmit, syncVars, offset, needsRender,
                            incomingQueue>>
           ELSE /\ LET stroke == [x0 |-> lastPos, x1 |-> p] IN
                     /\ buffer' = drawStrokeToBuffer(buffer, stroke)
                     /\ strokesRef' = Append(strokesRef, stroke)
                /\ incomingQueue' = Append(incomingQueue, Null)
                /\ emitted' = emitted + 1
                /\ lastPos' = p
                /\ sinceEmit' = 0
                /\ UNCHANGED <<offset, needsRender>>
    /\ UNCHANGED <<gateVars, capVars, toolVars, canvasSize, scale, panVars, display,
                   drawingRef, panningRef, asyncVars, connected>>

onPointerUp ==
    /\ drawingRef' = FALSE
    /\ panningRef' = FALSE
    /\ UNCHANGED <<gateVars, capVars, toolVars, viewVars, panVars, paintVars, lastPos, sinceEmit, syncVars, asyncVars, connected>>

\* time passes: performance.now() advances by d milliseconds
Tick(d) ==
    /\ sinceEmit < EMIT_GAP_MS
    /\ sinceEmit' = Min(EMIT_GAP_MS, sinceEmit + d)
    /\ UNCHANGED <<gateVars, capVars, toolVars, viewVars, panVars, paintVars, drawingRef, panningRef, lastPos, syncVars,
                   asyncVars, connected>>

(***************************************************************************)
(* Socket data handlers: init (history snapshot) and draw (remote stroke). *)
(* The server delivers them while the transport is up.                     *)
(***************************************************************************)
RECURSIVE drawAll(_, _)
drawAll(buf, h) ==
    IF h = << >> THEN buf ELSE drawAll(drawStrokeToBuffer(buf, Head(h)), Tail(h))

\* the buffer after socket.on("init") received history h
bufferAfterInit(buf, h) == IF Len(h) > 0 THEN drawAll(buf, h) ELSE buf

\* strokesRef.current after socket.on("init") received history h
historyAfterInit(old, h) == IF Len(h) > 0 THEN h ELSE << >>

onInit(h) ==
    /\ connected
    /\ buffer' = bufferAfterInit(buffer, h)
    /\ strokesRef' = historyAfterInit(strokesRef, h)
    /\ needsRender' = TRUE
    /\ UNCHANGED <<gateVars, capVars, toolVars, viewVars, panVars, gestureVars, emitted,
                   asyncVars, connected, incomingQueue, display>>

\* the number of occurrences of x in the sequence s
Count(x, s) == Cardinality({i \in 1..Len(s) : s[i] = x})

\* socket.on("draw") dropping a stroke History already holds
onDrawDedup(s) ==
    /\ connected
    /\ IF Count(s, strokesRef) > 0
         THEN UNCHANGED <<buffer, strokesRef>>
         ELSE /\ buffer' = Append(buffer, s)
              /\ strokesRef' = Append(strokesRef, s)
    /\ incomingQueue' = Append(incomingQueue, Null)
    /\ UNCHANGED <<gateVars, capVars, toolVars, viewVars, panVars, gestureVars, emitted,
                   asyncVars, connected, needsRender, display>>

\* socket.on("draw") with the stroke transmitted back to the server
onDrawEcho(s) ==
    /\ connected
    /\ buffer' = drawStrokeToBuffer(buffer, s)
    /\ strokesRef' = Append(strokesRef, s)
    /\ incomingQueue' = Append(incomingQueue, Null)
    /\ emitted' = emitted + 1
    /\ UNCHANGED <<gateVars, capVars, toolVars, viewVars, panVars, gestureVars, asyncVars,
                   connected, needsRender, display>>

onDraw(s) ==
    /\ connected
    /\ buffer' = drawStrokeToBuffer(buffer, s)
    /\ strokesRef' = Append(strokesRef, s)
    /\ incomingQueue' = Append(incomingQueue, Null)
    /\ UNCHANGED <<gateVars, capVars, toolVars, viewVars, panVars, gestureVars, emitted,
                   asyncVars, connected, needsRender, display>>

(***************************************************************************)
(* The animation callback: one paintFrame() per animation frame.  It       *)
(* clears the visible canvas, draws the grid, blits the buffer through the *)
(* ball clip under the current view, strokes the boundary ring and empties *)
(* incomingQueue.                                                          *)
(***************************************************************************)
\* paintFrame without "incomingQueue.current.length = 0"
paintFrameKeepQueue ==
    /\ display' = FullRender(canvasSize, scale, offset, buffer)
    /\ UNCHANGED <<gateVars, capVars, toolVars, viewVars, panVars, gestureVars, syncVars,
                   asyncVars, connected, needsRender, incomingQueue>>

paintFrame ==
    /\ display' = FullRender(canvasSize, scale, offset, buffer)
    /\ incomingQueue' = << >>
    /\ UNCHANGED <<gateVars, capVars, toolVars, viewVars, panVars, gestureVars, syncVars,
                   asyncVars, connected, needsRender>>

(***************************************************************************)
(* The revision src/unnamed/part_001: pointer and socket data handlers     *)
(* without buffer and access gate, the paint frame with its full and       *)
(* incremental paths, and the setup effect (dependencies [connected,       *)
(* color, size]).                                                          *)
(***************************************************************************)
onPointerDown001(pan, clientX, p) ==
    /\ IF pan
         THEN /\ panningRef' = TRUE
              /\ panStart' = clientX
              /\ offsetStart' = offset
              /\ scaleAtPanStart' = scale
              /\ UNCHANGED <<drawingRef, lastPos>>
         ELSE /\ drawingRef' = TRUE
              /\ lastPos' = p
              /\ UNCHANGED <<panningRef, panVars>>
    /\ UNCHANGED <<gateVars, capVars, toolVars, viewVars, paintVars, sinceEmit, syncVars,
                   asyncVars, connected>>

onPointerMove001(clientX, p) ==
    /\ IF panningRef
         THEN /\ offset' = panOffset(clientX, scale)
              /\ needsRender' = TRUE
              /\ UNCHANGED <<lastPos, sinceEmit, strokesRef, emitted, incomingQueue>>
         ELSE IF ~drawingRef \/ ~capConnected \/ Throttled(p)
           THEN UNCHANGED <<lastPos, sinceEmit, strokesRef, emitted, offset, needsRender,
                            incomingQueue>>
           ELSE /\ LET stroke == [x0 |-> lastPos, x1 |-> p] IN
                     /\ strokesRef' = Append(strokesRef, stroke)
                     /\ incomingQueue' = Append(incomingQueue, stroke)
                /\ emitted' = emitted + 1
                /\ lastPos' = p
                /\ sinceEmit' = 0
                /\ UNCHANGED <<offset, needsRender>>
    /\ UNCHANGED <<gateVars, capVars, toolVars, canvasSize, scale, panVars, display,
                   drawingRef, panningRef, buffer, asyncVars, connected>>

\* socket.on("init") without "needsRender.current = true"
onInit001NoFlag(h) ==
    /\ connected
    /\ strokesRef' = h
    /\ UNCHANGED <<gateVars, capVars, toolVars, viewVars, panVars, gestureVars, buffer,
                   emitted, asyncVars, connected, paintVars>>

onInit001(h) ==
    /\ connected
    /\ strokesRef' = h
    /\ needsRender' = TRUE
    /\ UNCHANGED <<gateVars, capVars, toolVars, viewVars, panVars, gestureVars, buffer,
                   emitted, asyncVars, connected, incomingQueue, display>>

onDraw001(s) ==
    /\ connected
    /\ strokesRef' = Append(strokesRef, s)
    /\ incomingQueue' = Append(incomingQueue, s)
    /\ UNCHANGED <<gateVars, capVars, toolVars, viewVars, panVars, gestureVars, buffer,
                   emitted, asyncVars, connected, needsRender, display>>

\* the visible canvas after a paintFrame() that finds needsRender = flag,
\* incomingQueue = queue and the canvas showing shown: the full render
\* (all of History, one ring) if the flag is set, then the strokes of the
\* queue and one more ring if the queue is not empty
afterFrame001(flag, queue, shown) ==
    LET full == IF flag
                  THEN FullRender(canvasSize, scale, offset, strokesRef)
                  ELSE shown
    IN  IF queue = << >>
          THEN full
          ELSE [path |-> IF flag THEN "both" ELSE "incremental",
                view |-> <<canvasSize, scale, offset>>,
                strokes |-> full.strokes \o queue,
                rings |-> IF flag THEN 2 ELSE 1]

paintFrame001 ==
    /\ display' = afterFrame001(needsRender, incomingQueue, display)
    /\ needsRender' = FALSE
    /\ incomingQueue' = << >>
    /\ UNCHANGED <<gateVars, capVars, toolVars, viewVars, panVars, gestureVars, syncVars,
                   asyncVars, connected>>

\* the setup effect: resize() clears the canvas and sets needsRender, the
\* first paintFrame() of the new animation loop runs inside the effect
RunEffect001 ==
    /\ capConnected # connected \/ capTool # <<color, size>>
    /\ capConnected' = connected
    /\ capTool' = <<color, size>>
    /\ display' = afterFrame001(TRUE, incomingQueue, Blank)
    /\ needsRender' = FALSE
    /\ incomingQueue' = << >>
    /\ UNCHANGED <<gateVars, capFull, capDemo, gestureVars, panVars, syncVars, asyncVars,
                   connected, color, size, viewVars>>

(***************************************************************************)
(* Wallet gate.  Each async function is split at its await: the click      *)
(* runs it up to the await, the resolution of the awaited promise runs     *)
(* the rest.  Several calls can be in flight at once.                      *)
(***************************************************************************)
\* connectWallet up to "await provider.connect()"; the button is rendered
\* only while walletAddr is null
connectWalletClick(hasProvider) ==
    /\ walletAddr = NoWallet
    /\ IF hasProvider
         THEN pendingConnects' = pendingConnects + 1
         ELSE UNCHANGED pendingConnects
    /\ UNCHANGED <<gateVars, capVars, toolVars, viewVars, panVars, paintVars, gestureVars, syncVars, pendingChecks,
                   pendingDisconnects, connected>>

\* provider.connect() resolved with address (NoWallet: no public key);
\* checkHoldings(address) runs up to its "await rpc(...)"
connectWalletResolved(address) ==
    /\ pendingConnects > 0
    /\ pendingConnects' = pendingConnects - 1
    /\ walletAddr' = address
    /\ IF address # NoWallet
         THEN /\ checkingHoldings' = TRUE
              /\ pendingChecks' = [pendingChecks EXCEPT ![address] = @ + 1]
         ELSE UNCHANGED <<checkingHoldings, pendingChecks>>
    /\ UNCHANGED <<hasFullAccess, demoUsed, capVars, toolVars, viewVars, panVars, paintVars, gestureVars, syncVars,
                   pendingDisconnects, connected>>

\* the catch block of connectWallet also resetting the access state
connectWalletRejectedResets ==
    /\ pendingConnects > 0
    /\ pendingConnects' = pendingConnects - 1
    /\ walletAddr' = NoWallet
    /\ hasFullAccess' = FALSE
    /\ UNCHANGED <<demoUsed, checkingHoldings, capVars, toolVars, viewVars, panVars,
                   paintVars, gestureVars, syncVars, pendingChecks, pendingDisconnects,
                   connected>>

\* provider.connect() rejected: caught, nothing else changes
connectWalletRejected ==
    /\ pendingConnects > 0
    /\ pendingConnects' = pendingConnects - 1
    /\ UNCHANGED <<gateVars, capVars, toolVars, viewVars, panVars, paintVars, gestureVars, syncVars, pendingChecks,
                   pendingDisconnects, connected>>

CheckOutcomes == {"pass", "insufficient", "error"}

\* the value checkHoldings gives to setHasFullAccess for an rpc outcome
fullAccessAfterCheck(old, outcome) == outcome = "pass"

\* rpc() of a checkHoldings(address) call settled; try/catch/finally
checkHoldingsSettled(address, outcome) ==
    /\ pendingChecks[address] > 0
    /\ pendingChecks' = [pendingChecks EXCEPT ![address] = @ - 1]
    /\ hasFullAccess' = fullAccessAfterCheck(hasFullAccess, outcome)
    /\ checkingHoldings' = FALSE
    /\ UNCHANGED <<walletAddr, demoUsed, capVars, toolVars, viewVars, panVars, paintVars, gestureVars, syncVars,
                   pendingConnects, pendingDisconnects, connected>>

\* disconnectWallet up to "await provider.disconnect()"; the button is
\* rendered only while walletAddr is set
disconnectWalletClick ==
    /\ walletAddr # NoWallet
    /\ pendingDisconnects' = pendingDisconnects + 1
    /\ UNCHANGED <<gateVars, capVars, toolVars, viewVars, panVars, paintVars, gestureVars, syncVars, pendingConnects,
                   pendingChecks, connected>>

\* the finally block of disconnectWallet (provider.disconnect() resolved
\* or rejected)
disconnectWalletFinally ==
    /\ pendingDisconnects > 0
    /\ pendingDisconnects' = pendingDisconnects - 1
    /\ walletAddr' = NoWallet
    /\ hasFullAccess' = FALSE
    /\ demoUsed' = 0
    /\ UNCHANGED <<checkingHoldings, capVars, toolVars, viewVars, panVars, paintVars, gestureVars, syncVars,
                   pendingConnects, pendingChecks, connected>>

\* the client x of a pointer event at the centre of the canvas
CentreX == canvasSize.w \div 2

(***************************************************************************)
(* Specifications.  Each one runs the handlers above under one             *)
(* environment: the events the browser, the wallet, the RPC endpoint and   *)
(* the server deliver, the values they carry, and how much of them the     *)
(* bounded model follows.                                                  *)
(***************************************************************************)

\* the next state keeps at most h strokes in History (and emitted), at
\* most 2h on the buffer and at most h entries on incomingQueue
StrokesWithin(h) ==
    /\ Len(strokesRef') <= h
    /\ Len(buffer') <= h + h
    /\ emitted' <= h
    /\ Len(incomingQueue') <= h

\* the next state has at most n async calls in flight
InFlightWithin(n) ==
    pendingConnects' + pendingDisconnects' + pendingChecks'["A"] + pendingChecks'["B"] <= n

(* Access gate and quota: one wallet address, one async call at a time,    *)
(* the pointer always at world position 0, no strokes from the server.     *)
Next ==
    \/ SocketConnect
    \/ SocketDisconnect
    \/ SocketConnectError
    \/ RunEffect
    \/ \E pan \in BOOLEAN : onPointerDown(pan, CentreX, 0)
    \/ onPointerMove(CentreX, 0) /\ StrokesWithin(MaxGateHist)
    \/ onPointerUp
    \/ Tick(EMIT_GAP_MS)
    \/ \E b \in BOOLEAN : connectWalletClick(b) /\ InFlightWithin(MaxGateInFlight)
    \/ \E a \in {"A", NoWallet} : connectWalletResolved(a)
    \/ connectWalletRejected
    \/ \E o \in CheckOutcomes : checkHoldingsSettled("A", o)
    \/ disconnectWalletClick /\ InFlightWithin(MaxGateInFlight)
    \/ disconnectWalletFinally

Spec == Init /\ [][Next]_vars

(* The quota scenario: a wallet holder below the threshold (Demo), the      *)
(* socket up, who makes one qualifying sample per gesture: the pointer     *)
(* does not travel and time advances only between gestures.                *)
NextDemo ==
    \/ SocketConnect
    \/ RunEffect
    \/ connectWalletClick(TRUE) /\ InFlightWithin(MaxGateInFlight)
    \/ connectWalletResolved("A")
    \/ checkHoldingsSettled("A", "insufficient")
    \/ onPointerDown(FALSE, CentreX, 0)
    \/ onPointerMove(CentreX, 0) /\ StrokesWithin(MaxDemoHist)
    \/ onPointerUp
    \/ ~drawingRef /\ Tick(EMIT_GAP_MS)

SpecDemo == Init /\ [][NextDemo]_vars

(* Holdings checks racing with wallet connects and disconnects; the user   *)
(* does not draw.                                                          *)
NextRace ==
    \/ SocketConnect
    \/ SocketDisconnect
    \/ RunEffect
    \/ connectWalletClick(TRUE) /\ InFlightWithin(MaxInFlight)
    \/ connectWalletResolved("A")
    \/ connectWalletRejected
    \/ \E o \in CheckOutcomes : checkHoldingsSettled("A", o)
    \/ disconnectWalletClick /\ InFlightWithin(MaxInFlight)
    \/ disconnectWalletFinally

SpecRace == Init /\ [][NextRace]_vars

(* Two wallets: the user connects, disconnects and connects again with     *)
(* either address while earlier calls are still in flight.  Each wallet's  *)
(* holdings are fixed: A holds the required tokens, B does not, and the    *)
(* RPC endpoint answers every check.  The transport goes up and down and   *)
(* the setup effect installs handlers that capture the flag.               *)
Holdings == [a \in Addrs |-> IF a = "A" THEN "pass" ELSE "insufficient"]

NextWallets ==
    \/ SocketConnect
    \/ SocketDisconnect
    \/ RunEffect
    \/ connectWalletClick(TRUE) /\ InFlightWithin(MaxInFlight)
    \/ \E a \in Addrs : connectWalletResolved(a)
    \/ \E a \in Addrs : checkHoldingsSettled(a, Holdings[a])
    \/ disconnectWalletClick /\ InFlightWithin(MaxInFlight)
    \/ disconnectWalletFinally

SpecWallets == Init /\ [][NextWallets]_vars

(* Stroke synchronisation: snapshots and remote strokes from the server,   *)
(* local gestures of a user without a wallet over the positions Pos.  The  *)
(* page is in the background: the only paint frames are those the setup    *)
(* effect makes itself.                                                    *)
Snapshots == {<< >>} \cup {<<s>> : s \in Stroke}

NextSync ==
    \/ SocketConnect
    \/ SocketDisconnect
    \/ RunEffect
    \/ \E p \in Pos : onPointerDown(FALSE, CentreX, p) /\ demoUsed' <= MaxGestures
    \/ \E p \in Pos : onPointerMove(CentreX, p) /\ StrokesWithin(MaxHist)
    \/ onPointerUp
    \/ \E d \in TickMs : Tick(d)
    \/ \E h \in Snapshots : onInit(h) /\ StrokesWithin(MaxHist)
    \/ \E s \in Stroke : onDraw(s) /\ StrokesWithin(MaxHist)

SpecSync == Init /\ [][NextSync]_vars

(* The toolbar of src/src/App.jsx: the user changes colour and size        *)
(* between gestures made at world position 0; the server sends snapshots   *)
(* of strokes made there.                                                  *)
ToolSnapshots == {<< >>, <<[x0 |-> 0, x1 |-> 0]>>}

NextTool ==
    \/ SocketConnect
    \/ SocketDisconnect
    \/ RunEffectApp
    \/ \E c \in Colors : setColor(c)
    \/ \E n \in Sizes : setSize(n)
    \/ onPointerDown(FALSE, CentreX, 0) /\ demoUsed' <= MaxGestures
    \/ onPointerMove(CentreX, 0) /\ StrokesWithin(MaxHist)
    \/ onPointerUp
    \/ Tick(EMIT_GAP_MS)
    \/ \E h \in ToolSnapshots : onInit(h) /\ StrokesWithin(MaxHist)

SpecTool == InitApp /\ [][NextTool]_vars

(* Local gestures only: a user without a wallet draws over the positions   *)
(* Pos while the transport goes up and down; the server sends nothing.     *)
NextLocal ==
    \/ SocketConnect
    \/ SocketDisconnect
    \/ RunEffect
    \/ \E pan \in BOOLEAN, p \in Pos :
          onPointerDown(pan, CentreX, p) /\ demoUsed' <= MaxLocalGestures
    \/ \E p \in Pos : onPointerMove(CentreX, p) /\ StrokesWithin(MaxLocalHist)
    \/ onPointerUp
    \/ \E d \in TickMs : Tick(d)

SpecLocal == Init /\ [][NextLocal]_vars

(* Local gestures and remote strokes: the transport comes up and stays up, *)
(* a user without a wallet draws at world position 0 and the server relays *)
(* the strokes of other clients.                                           *)
NextEcho ==
    \/ SocketConnect
    \/ RunEffect
    \/ onPointerDown(FALSE, CentreX, 0) /\ demoUsed' <= MaxGestures
    \/ onPointerMove(CentreX, 0) /\ StrokesWithin(MaxLocalHist)
    \/ onPointerUp
    \/ Tick(EMIT_GAP_MS)
    \/ \E s \in Stroke : onDraw(s) /\ StrokesWithin(MaxLocalHist)

SpecEcho == Init /\ [][NextEcho]_vars

(* The throttle: the transport comes up and stays up, and a user without a *)
(* wallet draws over the positions SamplePos, samples arriving 5 ms or     *)
(* 20 ms apart.                                                            *)
NextThrottle ==
    \/ SocketConnect
    \/ RunEffect
    \/ \E p \in SamplePos : onPointerDown(FALSE, CentreX, p) /\ demoUsed' <= MaxGestures
    \/ \E p \in SamplePos : onPointerMove(CentreX, p) /\ StrokesWithin(MaxLocalHist)
    \/ onPointerUp
    \/ \E d \in TickMs : Tick(d)

SpecThrottle == Init /\ [][NextThrottle]_vars

(* The view: the page is loaded in a window of any of the sizes Canvases,   *)
(* the window is resized, the transport goes up and down and the user      *)
(* turns the wheel with the cursor at the client positions CursorX (the    *)
(* centre of the canvas and 40 pixels to its right).                       *)
CursorX == {960, 1000}
WheelDeltaY == {-10000, -2000, 500, 10000}

InitView == \E canvas \in Canvases : InitWith(canvas, resetViewToBall(canvas), TRUE)

\* the next state keeps the offset within m world units of the origin and
\* on the multiples of 1/d
OffsetWithin(m, d) == ~RatLess(RatInt(m), RatAbs(offset')) /\ offset'[2] <= d

NextView ==
    \/ SocketConnect
    \/ SocketDisconnect
    \/ RunEffect
    \/ \E canvas \in Canvases : onResize(canvas)
    \/ \E cx \in CursorX, dy \in WheelDeltaY :
          onWheel(cx, dy) /\ OffsetWithin(MaxOffset, MaxOffsetDen)

SpecView == InitView /\ [][NextView]_vars

(* Zooming: the same windows and wheel events, the transport staying down. *)
NextZoom ==
    \/ \E canvas \in Canvases : onResize(canvas)
    \/ \E cx \in CursorX, dy \in WheelDeltaY :
          onWheel(cx, dy) /\ OffsetWithin(MaxOffset, MaxOffsetDen)

SpecZoom == InitView /\ [][NextZoom]_vars

(* Delivery by the server only: the user does not touch the canvas; the    *)
(* server sends snapshots (empty or of one stroke) and relays two          *)
(* different strokes, one of them the stroke of the snapshot.              *)
LiveStrokes == {[x0 |-> 0, x1 |-> 0], [x0 |-> 0, x1 |-> 1]}

NextDup ==
    \/ SocketConnect
    \/ RunEffect
    \/ \E h \in ToolSnapshots : onInit(h) /\ StrokesWithin(MaxHist)
    \/ \E s \in LiveStrokes : onDraw(s) /\ StrokesWithin(MaxHist)

SpecDup == Init /\ [][NextDup]_vars

(* Panning: the user pans with the pointer at the client positions         *)
(* CursorX and turns the wheel with the cursor at the centre of the        *)
(* canvas, also while the pan button is down.                              *)
PanWheelDeltaY == {-10000, 10000}

NextPan ==
    \/ \E cx \in CursorX : onPointerDown(TRUE, cx, 0)
    \/ \E cx \in CursorX :
          onPointerMove(cx, 0) /\ OffsetWithin(MaxOffset, MaxOffsetDen)
    \/ onPointerUp
    \/ \E dy \in PanWheelDeltaY :
          onWheel(CentreX, dy) /\ OffsetWithin(MaxOffset, MaxOffsetDen)

SpecPan == Init /\ [][NextPan]_vars

(* Joining: the transport comes up and stays up, the user draws at world   *)
(* position 0 as soon as the handlers see the connection, and the          *)
(* snapshot the server sent when it accepted the connection arrives later. *)
(* It holds what the server had accepted before the send: nothing, or a    *)
(* stroke another client made at position 1.                               *)
JoinSnapshots == {<< >>, <<[x0 |-> 1, x1 |-> 1]>>}

NextJoin ==
    \/ SocketConnect
    \/ RunEffect
    \/ onPointerDown(FALSE, CentreX, 0) /\ demoUsed' <= MaxLocalGestures
    \/ onPointerMove(CentreX, 0) /\ StrokesWithin(MaxLocalHist)
    \/ onPointerUp
    \/ Tick(EMIT_GAP_MS)
    \/ \E h \in JoinSnapshots : onInit(h) /\ StrokesWithin(MaxLocalHist)

SpecJoin == Init /\ [][NextJoin]_vars

(* Gestures: the transport comes up and stays up; a user without a wallet  *)
(* presses, moves and releases the pointer at the centre of the canvas     *)
(* (world position 0), with and without a pan button.                      *)
NextGesture ==
    \/ SocketConnect
    \/ RunEffect
    \/ \E pan \in BOOLEAN :
          onPointerDown(pan, CentreX, 0) /\ demoUsed' <= MaxLocalGestures
    \/ onPointerMove(CentreX, 0) /\ StrokesWithin(MaxLocalHist)
    \/ onPointerUp
    \/ Tick(EMIT_GAP_MS)

SpecGesture == Init /\ [][NextGesture]_vars

(* Panning and the quota: a user presses the pointer at the centre of the  *)
(* canvas, with or without a pan button, moves it to the client positions  *)
(* CursorX (world position 0) and releases it, until the quota is spent;   *)
(* the user connects a wallet that holds the required tokens, and the      *)
(* transport comes up.                                                     *)
NextPanQuota ==
    \/ SocketConnect
    \/ RunEffect
    \/ \E pan \in BOOLEAN : onPointerDown(pan, CentreX, 0)
    \/ \E cx \in CursorX :
          /\ onPointerMove(cx, 0)
          /\ StrokesWithin(MaxGateHist)
          /\ OffsetWithin(MaxOffset, MaxOffsetDen)
    \/ onPointerUp
    \/ connectWalletClick(TRUE) /\ InFlightWithin(MaxGateInFlight)
    \/ connectWalletResolved("A")
    \/ checkHoldingsSettled("A", "pass")

SpecPanQuota == Init /\ [][NextPanQuota]_vars

(* Gestures anywhere on the canvas: the pointer events carry the client    *)
(* positions BallCursorX (the left edge, the centre and the right edge of  *)
(* the default window) and the handlers convert them with toWorld.         *)
BallCursorX == {0, 960, 1920}

NextBall ==
    \/ SocketConnect
    \/ RunEffect
    \/ \E cx \in BallCursorX :
          onPointerDown(FALSE, cx, worldPos(cx)) /\ demoUsed' <= MaxLocalGestures
    \/ \E cx \in BallCursorX :
          onPointerMove(cx, worldPos(cx)) /\ StrokesWithin(MaxLocalHist)
    \/ onPointerUp
    \/ Tick(EMIT_GAP_MS)

SpecBall == Init /\ [][NextBall]_vars

(* The page in the foreground: the handlers of part_002 with the paint     *)
(* frames of the animation loop.  A user pans and draws with the pointer   *)
(* at the client positions CursorX (world position 0), turns the wheel at  *)
(* the centre of the canvas and resizes the window; the server sends       *)
(* snapshots and relays strokes.                                           *)
PaintWheelDeltaY == {10000}
PaintStrokes == {[x0 |-> 0, x1 |-> 0]}

NextPaint ==
    \/ SocketConnect
    \/ RunEffect
    \/ \E canvas \in Canvases : onResize(canvas)
    \/ \E dy \in PaintWheelDeltaY : onWheel(CentreX, dy)
    \/ \E pan \in BOOLEAN :
          onPointerDown(pan, CentreX, 0) /\ demoUsed' <= MaxLocalGestures
    \/ \E cx \in CursorX :
          /\ onPointerMove(cx, 0)
          /\ StrokesWithin(MaxPaintHist)
          /\ OffsetWithin(MaxOffset, MaxOffsetDen)
    \/ onPointerUp
    \/ Tick(EMIT_GAP_MS)
    \/ \E h \in ToolSnapshots : onInit(h) /\ StrokesWithin(MaxPaintHist)
    \/ \E s \in PaintStrokes : onDraw(s) /\ StrokesWithin(MaxPaintHist)
    \/ paintFrame

SpecPaint == Init /\ [][NextPaint]_vars

(* The animation loop under weak fairness: requestAnimationFrame gives no  *)
(* timing, only that a frame that stays pending runs.  A user draws and    *)
(* the server relays strokes.                                              *)
NextFrames ==
    \/ SocketConnect
    \/ RunEffect
    \/ onPointerDown(FALSE, CentreX, 0) /\ demoUsed' <= MaxLocalGestures
    \/ onPointerMove(CentreX, 0) /\ StrokesWithin(MaxPaintHist)
    \/ onPointerUp
    \/ Tick(EMIT_GAP_MS)
    \/ \E s \in LiveStrokes : onDraw(s) /\ StrokesWithin(MaxPaintHist)
    \/ paintFrame

SpecFrames == Init /\ [][NextFrames]_vars /\ WF_vars(paintFrame)

(* The revision part_001 with its animation frames: a user pans and draws  *)
(* with the pointer at the client positions CursorX (world position 0),    *)
(* turns the wheel at the centre of the canvas and resizes the window; the *)
(* server sends snapshots and relays strokes.                              *)
NextPaint001 ==
    \/ SocketConnect
    \/ RunEffect001
    \/ \E canvas \in Canvases : onResize(canvas)
    \/ \E dy \in PaintWheelDeltaY : onWheel(CentreX, dy)
    \/ \E pan \in BOOLEAN : onPointerDown001(pan, CentreX, 0)
    \/ \E cx \in CursorX :
          /\ onPointerMove001(cx, 0)
          /\ StrokesWithin(MaxPaintHist)
          /\ OffsetWithin(MaxPaintOffset, MaxOffsetDen)
    \/ onPointerUp
    \/ Tick(EMIT_GAP_MS)
    \/ \E h \in ToolSnapshots : onInit001(h)
    \/ \E s \in PaintStrokes : onDraw001(s) /\ StrokesWithin(MaxPaintHist)
    \/ paintFrame001

SpecPaint001 == Init001 /\ [][NextPaint001]_vars

(***************************************************************************)
(* Claims                                                                  *)
(***************************************************************************)

\* a non-pan pointer-down (at any world position) of the installed handler
DragStart == \E p \in Pos : onPointerDown(FALSE, CentreX, p)

\* a pointer-move (at any world position) of the installed handler
Sample == \E p \in Pos : onPointerMove(CentreX, p)

\* C1: while the tier is not Full, a non-pan pointer-down starts drawing
\* exactly when the current demoUsed is below DEMO_LIMIT; the pointer-down
\* handler starts drawing exactly when its canDrawNow() returns true.
C1_DragStartIffQuotaLeft ==
    ~hasFullAccess => (canDrawNow <=> demoUsed < DEMO_LIMIT)

\* C2: in the quota scenario (Demo user, one stroke per gesture) the 11th
\* drag-start is rejected, so History never holds more than DEMO_LIMIT
\* strokes and no more than DEMO_LIMIT strokes are emitted.
C2_HistoryStaysAtLimit ==
    Len(strokesRef) <= DEMO_LIMIT /\ emitted <= DEMO_LIMIT

\* C3: whenever the tier is Full the handlers let every non-pan
\* pointer-down start drawing and suppress no pointer-move for the quota,
\* whatever demoUsed is.
C3_FullRemovesQuotaCheck ==
    hasFullAccess => canDrawNow

\* C4: in every reachable state 0 <= demoUsed <= DEMO_LIMIT.
C4_DemoUsedInRange ==
    0 <= demoUsed /\ demoUsed <= DEMO_LIMIT

\* C4 witness: the quota is spent and the installed handlers, which still
\* see an unspent quota, have let a further drag-start through.
C4_Witness ==
    demoUsed = DEMO_LIMIT /\ capDemo < DEMO_LIMIT /\ ~capFull /\ drawingRef

\* C5 (as claimed): no step ever lowers demoUsed.
C5_NeverLowered ==
    [][demoUsed' >= demoUsed]_vars

\* C5 (amended): the only step that lowers demoUsed is the completion of
\* disconnectWallet, which resets it to 0; drag-starts, holdings-check
\* completions and wallet connects never lower it.
C5_LoweredOnlyByDisconnect ==
    [][demoUsed' < demoUsed => (disconnectWalletFinally /\ demoUsed' = 0)]_vars

\* C5 witness: a wallet disconnect has reset a used quota (the installed
\* handlers captured a larger value) and a later drag-start has raised it
\* again.
C5_Witness ==
    walletAddr = NoWallet /\ 0 < demoUsed /\ demoUsed < capDemo

\* C6: demoUsed does not change in any step taken while the tier is Full.
C6_UnchangedWhileFull ==
    [][hasFullAccess => demoUsed' = demoUsed]_vars

\* C7: each permitted drag-start by a non-Full user raises demoUsed to
\* min(DEMO_LIMIT, demoUsed + 1), and no pointer sample changes demoUsed.
C7_DragStartCountsOnce ==
    [][/\ (~hasFullAccess /\ canDrawNow /\ DragStart)
            => demoUsed' = Min(DEMO_LIMIT, demoUsed + 1)
       /\ Sample => demoUsed' = demoUsed]_vars

\* C8: when the holdings check fails it completes with the tier non-Full
\* and the checking flag cleared, and drawing is permitted subject only to
\* the demo quota (a drag-start is let through exactly when quota is left).
C8_CheckFailureFailsOpenToDemo ==
    [][(\E a \in Addrs : checkHoldingsSettled(a, "error"))
          => /\ ~hasFullAccess'
             /\ ~checkingHoldings'
             /\ (canDrawNow' <=> demoUsed' < DEMO_LIMIT)]_vars

\* C9: once Full access was granted (the installed handlers captured it)
\* and then revoked by a wallet disconnect, the completion of a holdings
\* check started before the disconnect does not set the tier back to Full.
C9_StaleCheckNeverReopens ==
    [][(capFull /\ ~hasFullAccess /\ walletAddr = NoWallet /\ walletAddr' = NoWallet)
          => ~hasFullAccess']_vars

\* C10: immediately after the handler of a history snapshot h, History
\* equals h and the buffer holds exactly the strokes of h drawn in order on
\* a disc-only buffer.
C10_SnapshotReplacesBuffer ==
    [][\A h \in Snapshots :
          onInit(h) => (strokesRef' = h /\ buffer' = drawAll(NoStrokes, h))]_vars

\* the handler of a history snapshot
SnapshotStep == \E h \in Snapshots : onInit(h)

\* C11: once the buffer reflects exactly the strokes of History (the n
\* strokes of the snapshot and the k live strokes after it), it reflects
\* exactly History after every step that is not the next snapshot, in
\* particular after the re-run of the setup effect that the change of the
\* connected status triggers, before or after the snapshot handler.
C11_BufferReflectsHistory ==
    [][(buffer = strokesRef /\ ~SnapshotStep) => buffer' = strokesRef']_vars

\* s is a prefix of t
IsPrefix(s, t) == Len(s) <= Len(t) /\ SubSeq(t, 1, Len(s)) = s

\* C12: the buffer is created once and only ever drawn on: while the
\* connection status is steady (and known to the installed handlers), no
\* step other than a snapshot removes a stroke from the buffer; in
\* particular a change of the active colour or size, and the re-run of the
\* setup effect it triggers, leave the strokes on the buffer.
C12_BufferKeptAcrossToolChange ==
    [][(capConnected = connected /\ connected' = connected /\ ~SnapshotStep)
          => IsPrefix(buffer, buffer')]_vars

\* C13: a transport disconnect (disconnect or connect_error) sets connected
\* to false and leaves History and the buffer as they were, and while the
\* transport stays down no step changes History or the buffer.
C13_DisconnectKeepsStrokes ==
    [][~connected' => (strokesRef' = strokesRef /\ buffer' = buffer)]_vars

\* C14: with local gestures only (no snapshot, no remote stroke) History
\* holds exactly the transmitted strokes, one per transmission, and each of
\* them is on the buffer, in every reachable state.
C14_TransmittedStrokesKept ==
    Len(strokesRef) = emitted /\ buffer = strokesRef

\* C14, the handler step alone: a step that transmits transmits exactly one
\* stroke and in the same step draws it on the buffer and appends it to
\* History.
C14_SampleStep ==
    [][emitted' # emitted
            => /\ emitted' = emitted + 1
               /\ Len(strokesRef') = Len(strokesRef) + 1
               /\ strokesRef' = Append(strokesRef, strokesRef'[Len(strokesRef')])
               /\ buffer' = Append(buffer, strokesRef'[Len(strokesRef')])]_vars

\* the installed pointer-move handler is past its gate: a drawing gesture
\* is in progress and the handler sees the socket connected and the user
\* permitted
SampleGate == drawingRef /\ ~panningRef /\ capConnected /\ canDrawNow

\* a pointer sample at q would now produce a Stroke (the handler would
\* transmit one)
Emits(q) == ENABLED (onPointerMove(CentreX, q) /\ emitted' = emitted + 1)

\* C15: the handler of a remote stroke s draws s on the buffer once,
\* appends it to History once and transmits nothing; a step transmits only
\* if it is an accepted local sample, and then exactly one stroke.
C15_RemoteStrokeNotEchoed ==
    [][/\ \A s \in Stroke :
            onDraw(s) => /\ buffer' = Append(buffer, s)
                         /\ strokesRef' = Append(strokesRef, s)
                         /\ emitted' = emitted
       /\ emitted' # emitted
            => /\ emitted' = emitted + 1
               /\ SampleGate /\ onPointerMove(CentreX, 0)]_vars

\* C15 witness: one stroke has been transmitted and a remote stroke has
\* arrived as well (History and buffer hold more than was transmitted).
C15_Witness ==
    /\ emitted = 1
    /\ Len(strokesRef) = 2
    /\ buffer = strokesRef

\* C16 (as claimed): a pointer sample produces a Stroke only if it is at
\* least 1 world unit from the last emitted point and at least 12 ms have
\* elapsed since the last emission.
C16_EmitsOnlyIfBoth ==
    \A q \in SamplePos :
        Emits(q) => /\ dist(q, lastPos) >= MIN_DIST * PosPerUnit
                    /\ sinceEmit >= EMIT_GAP_MS

\* C16 (amended): during a drawing gesture a pointer sample produces a
\* Stroke exactly when it is at least 1 world unit from the last emitted
\* point or at least 12 ms have elapsed since the last emission; it is
\* dropped only when both tests fail.
C16_EmitsIffEither ==
    \A q \in SamplePos :
        Emits(q) <=> /\ SampleGate
                     /\ \/ dist(q, lastPos) >= MIN_DIST * PosPerUnit
                        \/ sinceEmit >= EMIT_GAP_MS

\* C16 witness: a stationary pointer has just emitted a zero-length stroke
\* (12 ms had elapsed), after an earlier emission in the same session.
C16_Witness ==
    /\ drawingRef
    /\ emitted = 2
    /\ sinceEmit = 0
    /\ Len(strokesRef) = 2
    /\ strokesRef[2] = [x0 |-> lastPos, x1 |-> lastPos]

\* C17: within a drawing gesture a sample under 1 world unit from the last
\* emitted point and under 12 ms after the last emission (0.5 units, 5 ms)
\* produces no Stroke, so two such samples in a row yield at most one; a
\* sample 2 units and at least 12 ms (20 ms) after the previous one
\* produces a Stroke.
C17_ThrottleCases ==
    \A q \in SamplePos :
        SampleGate =>
          /\ (dist(q, lastPos) < MIN_DIST * PosPerUnit /\ sinceEmit < EMIT_GAP_MS)
                => ~Emits(q)
          /\ (dist(q, lastPos) >= 2 * PosPerUnit /\ sinceEmit >= EMIT_GAP_MS)
                => Emits(q)

\* C17 witness: one gesture has produced two strokes, each 2 world units
\* long, and a sample half a unit from the last one is being dropped.
C17_Witness ==
    /\ SampleGate
    /\ demoUsed = 1
    /\ emitted = 2
    /\ Len(strokesRef) = 2
    /\ \A i \in 1..2 : dist(strokesRef[i].x0, strokesRef[i].x1) = 2 * PosPerUnit
    /\ sinceEmit < EMIT_GAP_MS
    /\ \E q \in SamplePos : 2 * dist(q, lastPos) = PosPerUnit /\ ~Emits(q)

\* 0.2 <= s <= 5
InRange(s) == ~RatLess(s, SCALE_MIN) /\ ~RatLess(SCALE_MAX, s)

\* C18: for a scale in [0.2, 5], any offset, any cursor position and any
\* wheel delta, the world point toWorld returns for the cursor position
\* after the wheel handler (which leaves the canvas size alone) equals the
\* one it returned before the handler.
C18_ZoomAnchoredAtCursor ==
    [][\A cx \in CursorX, dy \in WheelDeltaY :
          (InRange(scale) /\ onWheel(cx, dy))
              => worldX(cx, scale', offset') = toWorld(cx)]_vars

\* C18 witness: the wheel has changed the scale with the cursor off the
\* centre of the canvas, which moved the offset.
C18_Witness ==
    InRange(scale) /\ scale # resetViewToBall(canvasSize) /\ offset # Zero

\* C19: whatever the scale before and whatever the wheel delta, the scale
\* after a wheel event lies in [0.2, 5].
C19_WheelKeepsScaleInRange ==
    [][\A cx \in CursorX, dy \in WheelDeltaY :
          onWheel(cx, dy) => InRange(scale')]_vars

\* C19 witness: wheel events (the last one off-centre) have driven the
\* scale to its upper limit.
C19_Witness ==
    scale = SCALE_MAX /\ offset # Zero

\* C20: scale lies in [0.2, 5] in every reachable state, the state after
\* fit-to-ball on load and after every re-run of the setup effect included.
C20_ScaleAlwaysInRange ==
    InRange(scale)

\* C21: while a pan gesture is active, after every pointer move
\* offset = offsetAtPanStart + (pointer position - pan start position) /
\* scaleAtPanStart, also when wheel events occurred between the pan's
\* pointer-down and that move.
C21_PanUsesScaleAtPanStart ==
    [][\A cx \in CursorX :
          (panningRef /\ onPointerMove(cx, 0))
              => offset' = RatAdd(offsetStart,
                                  RatDiv(RatInt(cx - panStart), scaleAtPanStart))]_vars

\* C22: panning and drawing are mutually exclusive: in no reachable state
\* are the panning flag and the drawing flag both set, whatever the
\* sequence of pointer-down, move and up events (two pointer-downs with no
\* pointer-up in between included).
C22_PanningExcludesDrawing ==
    ~(panningRef /\ drawingRef)

\* C23: a drag-start rejected for exhausted quota changes nothing
\* (demoUsed, History, the buffer, the last-position anchor, the drawing
\* flag and every other variable keep their values, nothing is
\* transmitted), and a pointer move that follows it produces no Stroke.
C23_RejectedDragStartChangesNothing ==
    ~canDrawNow =>
        /\ \A p \in Pos : ~ENABLED (onPointerDown(FALSE, CentreX, p) /\ vars' # vars)
        /\ \A q \in Pos : ~Emits(q)

\* C23 witness: the installed handlers see the quota exhausted and the
\* socket connected, and the drawing flag is still set from a drag-start
\* that was let through earlier.
C23_Witness ==
    /\ ~canDrawNow
    /\ capConnected
    /\ drawingRef
    /\ demoUsed = DEMO_LIMIT

\* C24: duplicate delivery is not detected: whenever a stroke s is already
\* in History and on the buffer (it came in a history snapshot), the
\* handler of s received again as a live stroke runs normally, draws s on
\* the buffer once more and appends it to History once more.
C24_DuplicateAppliedAgain ==
    \A s \in Stroke :
        (connected /\ Count(s, strokesRef) > 0 /\ Count(s, buffer) > 0)
            => ENABLED (/\ onDraw(s)
                        /\ Count(s, strokesRef') = Count(s, strokesRef) + 1
                        /\ Count(s, buffer') = Count(s, buffer) + 1)

\* C24 witness: a stroke is twice in History and twice on the buffer, and
\* only one live stroke has arrived: the other copy came in a snapshot.
C24_Witness ==
    \E s \in Stroke :
        /\ Count(s, strokesRef) = 2
        /\ Count(s, buffer) = 2
        /\ Len(incomingQueue) = 1

\* C26: every view-changing event (window resize, a pointer move while
\* panning, a wheel zoom, a history snapshot) leaves needsRender set when
\* its handler returns, while a local or a remote stroke alone leaves
\* needsRender as it was.
C26_ViewEventsSetNeedsRender ==
    [][/\ \A canvas \in Canvases : onResize(canvas) => needsRender'
       /\ \A dy \in PaintWheelDeltaY : onWheel(CentreX, dy) => needsRender'
       /\ \A cx \in CursorX : (panningRef /\ onPointerMove001(cx, 0)) => needsRender'
       /\ \A h \in ToolSnapshots : onInit001(h) => needsRender'
       /\ \A cx \in CursorX :
             (~panningRef /\ onPointerMove001(cx, 0)) => needsRender' = needsRender
       /\ \A s \in PaintStrokes : onDraw001(s) => needsRender' = needsRender]_vars

\* C26 witness: a frame has painted incrementally (needsRender was clear
\* and a stroke had arrived) and a view-changing event has set needsRender
\* since.
C26_Witness ==
    /\ needsRender
    /\ display.path = "incremental"
    /\ Len(strokesRef) > 0

\* C27: a paint frame that performed a full render ends with needsRender
\* clear, and once clear needsRender stays clear until the next
\* view-changing event (window resize, pan move, wheel zoom, history
\* snapshot, or the resize() of a new run of the setup effect).
C27_FullRenderClearsNeedsRender ==
    [][/\ (paintFrame /\ display'.path = "full") => ~needsRender'
       /\ (~needsRender /\ needsRender') =>
             \/ \E canvas \in Canvases : onResize(canvas)
             \/ \E dy \in PaintWheelDeltaY : onWheel(CentreX, dy)
             \/ \E cx \in CursorX : panningRef /\ onPointerMove(cx, 0)
             \/ \E h \in ToolSnapshots : onInit(h)
             \/ RunEffect]_vars

\* C28: a paint frame that finds the canvas showing a prefix of the buffer
\* under the current view (no view-changing event since the last full
\* render) and at least one stroke applied since takes the incremental
\* path: the canvas keeps what it showed, gains the new strokes only, and
\* the boundary ring is stroked once.
C28_IncrementalPathBetweenFullRenders ==
    [][(/\ paintFrame
        /\ display.path # "none"
        /\ display.view = <<canvasSize, scale, offset>>
        /\ Len(display.strokes) < Len(buffer)
        /\ SubSeq(buffer, 1, Len(display.strokes)) = display.strokes
        /\ incomingQueue # << >>)
         => /\ display'.path = "incremental"
            /\ display'.strokes = buffer
            /\ display'.rings = 1]_vars

\* C29: with weak fairness of the animation callback, a non-empty
\* incomingQueue is eventually empty again (every marker put on it is
\* consumed by a frame), and once events stop arriving the queue is empty
\* for good.
C29_QueueEventuallyConsumed ==
    /\ (incomingQueue # << >>) ~> (incomingQueue = << >>)
    /\ <>[](incomingQueue = << >>)

\* C29 witness: the strokes applied to the buffer have been put on the
\* canvas by a frame that emptied the queue.
C29_Witness ==
    /\ incomingQueue = << >>
    /\ buffer # << >>
    /\ display.strokes = buffer

\* C30: every stroke a local gesture has put in History (and emitted) has
\* both endpoints within BALL_RADIUS world units of the origin.
C30_LocalStrokesInsideBall ==
    \A i \in 1..Len(strokesRef) :
        /\ Abs(strokesRef[i].x0) <= BALL_RADIUS * PosPerUnit
        /\ Abs(strokesRef[i].x1) <= BALL_RADIUS * PosPerUnit

\* C31: while connected is false no pointer sample produces a local Stroke
\* (nothing is applied, appended to History or transmitted); a permitted
\* drag-start made while connected is false still counts against the demo
\* quota.
C31_NoLocalStrokeWhileDisconnected ==
    ~connected =>
        /\ \A q \in Pos : ~Emits(q)
        /\ (canDrawNow /\ ~capFull /\ demoUsed < DEMO_LIMIT)
              => ENABLED (onPointerDown(FALSE, CentreX, 0) /\ demoUsed' = demoUsed + 1)

\* C32: once every wallet connect, disconnect and holdings check in flight
\* has completed, hasFullAccess is the result of the check of the wallet
\* now connected, whatever order they completed in; and hasFullAccess is
\* never true while no wallet is connected.
C32_FlagMatchesConnectedWallet ==
    /\ (/\ pendingConnects = 0
        /\ pendingDisconnects = 0
        /\ \A a \in Addrs : pendingChecks[a] = 0
        /\ walletAddr # NoWallet)
          => (hasFullAccess <=> Holdings[walletAddr] = "pass")
    /\ walletAddr = NoWallet => ~hasFullAccess

\* C33: a change of the connection status leaves the view as the user's
\* zoom and pan set it: neither the status handler (connect, disconnect,
\* connect_error) nor the re-run of the setup effect that the change of
\* connected triggers changes scale or offset.
C33_StatusChangeKeepsView ==
    [][(SocketConnect \/ SocketDisconnect \/ SocketConnectError \/ RunEffect)
          => (scale' = scale /\ offset' = offset)]_vars

\* C34: when the snapshot arrives while History holds only strokes this
\* client emitted since the connect event (none of them in the snapshot,
\* which was sent before), each of these strokes is still in History after
\* the snapshot handler and is on the buffer as well.
C34_LocalStrokeSurvivesSnapshot ==
    [][\A h \in JoinSnapshots :
          (/\ onInit(h)
           /\ Len(strokesRef) = emitted
           /\ \A i \in 1..Len(strokesRef) : Count(strokesRef[i], h) = 0)
            => \A i \in 1..Len(strokesRef) :
                  /\ Count(strokesRef[i], strokesRef') > 0
                  /\ Count(strokesRef[i], buffer') > 0]_vars

\* C35: a step produces a local Stroke (appends to History, transmits)
\* only if it is a pointer move made while the drawing flag is set and the
\* panning flag is not; pointerup, pointerleave and pointercancel clear the
\* drawing flag, and only a permitted drag-start sets it again.
C35_StrokeOnlyDuringGesture ==
    [][/\ (emitted' # emitted \/ strokesRef' # strokesRef)
            => (drawingRef /\ ~panningRef /\ Sample)
       /\ onPointerUp => ~drawingRef'
       /\ (~drawingRef /\ drawingRef') => (canDrawNow /\ DragStart)]_vars

\* C35 witness: a gesture that produced a stroke has been released, and a
\* pointer move would pass every other test of the handler (connection,
\* permission, throttle).
C35_Witness ==
    /\ emitted > 0
    /\ ~drawingRef
    /\ ~panningRef
    /\ capConnected
    /\ canDrawNow
    /\ ~Throttled(0)

\* C36: the strokes of a drawing gesture form a connected polyline: a
\* permitted drag-start at p makes p the anchor, every emitted stroke starts
\* at the anchor and makes its end point the new anchor, and no other step
\* moves the anchor.
C36_GestureIsPolyline ==
    [][/\ \A p \in SamplePos :
            (canDrawNow /\ onPointerDown(FALSE, CentreX, p)) => lastPos' = p
       /\ emitted' # emitted
            => /\ Len(strokesRef') = Len(strokesRef) + 1
               /\ strokesRef'[Len(strokesRef')].x0 = lastPos
               /\ strokesRef'[Len(strokesRef')].x1 = lastPos'
       /\ lastPos' # lastPos
            => \/ emitted' # emitted
               \/ \E p \in SamplePos : canDrawNow /\ onPointerDown(FALSE, CentreX, p)]_vars

\* C36 witness: two strokes of non-zero length emitted in one gesture, the
\* second starting where the first ended, away from the drag-start.
C36_Witness ==
    /\ drawingRef
    /\ demoUsed = 1
    /\ emitted = 2
    /\ Len(strokesRef) = 2
    /\ strokesRef[1].x0 # strokesRef[1].x1
    /\ strokesRef[2].x0 = strokesRef[1].x1
    /\ strokesRef[2].x1 # strokesRef[2].x0

\* C37: whatever the access tier and the quota, a pan pointer-down is
\* accepted (it sets the panning flag), and neither a pan pointer-down, a
\* pointer move made while the panning flag is set nor a release can change
\* demoUsed, History or the buffer or transmit.
C37_PanLeavesQuotaAndStrokes ==
    \A cx \in CursorX :
        /\ ENABLED (onPointerDown(TRUE, cx, 0) /\ panningRef')
        /\ ~ENABLED (/\ onPointerDown(TRUE, cx, 0)
                     /\ <<demoUsed, syncVars>>' # <<demoUsed, syncVars>>)
        /\ panningRef
              => ~ENABLED (/\ onPointerMove(cx, 0)
                           /\ <<demoUsed, syncVars>>' # <<demoUsed, syncVars>>)
        /\ ~ENABLED (onPointerUp /\ <<demoUsed, syncVars>>' # <<demoUsed, syncVars>>)

\* C37 witness: the installed handlers see the quota spent, and a pan made
\* since has moved the view.
C37_Witness ==
    /\ ~canDrawNow
    /\ demoUsed = DEMO_LIMIT
    /\ panningRef
    /\ offset # Zero

\* C38: a wallet connect that fails, for want of a provider or because
\* provider.connect() rejects, changes neither the wallet address, the
\* Full/Demo flag, demoUsed nor the checking flag, and starts no holdings
\* check.
C38_FailedConnectKeepsAccess ==
    /\ ~ENABLED (/\ connectWalletClick(FALSE)
                 /\ <<gateVars, pendingChecks>>' # <<gateVars, pendingChecks>>)
    /\ ~ENABLED (/\ connectWalletRejected
                 /\ <<gateVars, pendingChecks>>' # <<gateVars, pendingChecks>>)

\* C38 witness: a wallet is connected with Full access, no check is in
\* flight, and a second connectWallet call is still awaiting the provider
\* (its rejection is about to be handled).
C38_Witness ==
    /\ walletAddr = "A"
    /\ hasFullAccess
    /\ pendingChecks["A"] = 0
    /\ pendingConnects > 0

TypeOK ==
    /\ walletAddr \in Addrs \cup {NoWallet}
    /\ hasFullAccess \in BOOLEAN
    /\ demoUsed \in 0..DEMO_LIMIT
    /\ checkingHoldings \in BOOLEAN
    /\ connected \in BOOLEAN
    /\ capFull \in BOOLEAN
    /\ capDemo \in 0..DEMO_LIMIT
    /\ capConnected \in BOOLEAN
    /\ drawingRef \in BOOLEAN
    /\ panningRef \in BOOLEAN
    /\ lastPos \in Pos \cup SamplePos
    /\ sinceEmit \in 0..EMIT_GAP_MS
    /\ strokesRef \in Seq([x0 : Pos \cup SamplePos, x1 : Pos \cup SamplePos])
    /\ buffer \in Seq([x0 : Pos \cup SamplePos, x1 : Pos \cup SamplePos])
    /\ emitted \in Nat
    /\ pendingConnects \in Nat
    /\ pendingChecks \in [Addrs -> Nat]
    /\ pendingDisconnects \in Nat
    /\ color \in Colors
    /\ size \in Sizes
    /\ capTool \in Colors \X Sizes
    /\ canvasSize \in Canvases
    /\ scale \in Int \X (Nat \ {0})
    /\ offset \in Int \X (Nat \ {0})
    /\ panStart \in Int
    /\ offsetStart \in Int \X (Nat \ {0})
    /\ scaleAtPanStart \in Int \X (Nat \ {0})
    /\ needsRender \in BOOLEAN
    /\ incomingQueue \in Seq({Null} \cup [x0 : Pos \cup SamplePos, x1 : Pos \cup SamplePos])
    /\ display.path \in {"none", "full", "incremental", "both"}

====
